---- MODULE Spec2Model ----
(***************************************************************************)
(* Model of the classroom backup client (client.py): one device that runs  *)
(* main() again and again against a configuration server.  A run loads the *)
(* stored configuration, fetches the remote one, applies the pending       *)
(* update scripts, stores the new configuration and drives borg through    *)
(* the create / init / retry protocol.                                     *)
(*                                                                         *)
(* The companion audit tool (find_missing.py) is modelled next to it: one  *)
(* inspection of a repository as a function of what `borg list` gave, and  *)
(* the audit run that gathers the inspections of all repositories under a  *)
(* semaphore and prints the report.                                        *)
(***************************************************************************)
EXTENDS Integers, Sequences, FiniteSets, TLC

\* Highest update epoch a configuration of the model may carry.
MaxEpoch == 2
\* Highest configuration epoch of the model.
MaxCfgEpoch == 1
\* Longest borg log (number of stderr lines) of the model.
MaxLines == 1
\* Number of repositories the audit of the model checks.
NRepos == 3
\* find_missing.py:43 has 12; the model runs the audit with a smaller
\* semaphore so that repositories have to wait for a permit.
CONCURRENT_BORG_PROCS == 2
\* Longest stderr (in lines) of one `borg list` of the model.
MaxStderrLines == 2
\* Longest archive listing of one `borg list` of the model.
MaxArchives == 2
\* The calendar days of the model are 1..MaxDay.
MaxDay == 2

VARIABLES
    file,           \* STATE_DIRECTORY/config.json on the device
    pc,             \* position of the running main(), "idle" before the first run
    stored_config,  \* main: stored_config
    fetch,          \* how the fetch of /config.json ended in this run
    config_json,    \* main: config_json, the document exactly as fetched
    config,         \* main: config
    rng,            \* apply_config: what is left of range(current + 1, latest + 1)
    loop,           \* apply_config's for loop: "none", "running" or "finished"
    executed,       \* this run's bash invocations, in order: [epoch, body, status]
    is_retry,       \* do_backup: is_retry
    creates,        \* this run's create invocations: <<[code, missing, raised]>>
    inits,          \* this run's init invocations: <<code>>
    saved,          \* what store_config did in this run
    exitStatus,     \* exit status of the run, -1 while it runs
    cause,          \* why the run ended
    fileAtStart,    \* file as it was when the run started
    everExecuted,   \* epochs whose bash invocation started in an earlier run
    retryPending,   \* <<[doc, pending]>> of the previous run if a failed script
                    \* aborted it, kept while this run fetches the same document
    \* find_missing.py, main()
    apc,            \* position of the audit's main(), "idle" before it starts
    date,           \* main: date (also the date argument of one inspection)
    task,           \* state of do_with_sem(...) for each position of REPOS_TO_CHECK
    sem,            \* asyncio.Semaphore: its free permits
    taskResult,     \* what each finished inspection returned or raised
    completed,      \* the positions of the finished inspections, in completion order
    results,        \* main: results, the list asyncio.gather returned
    missing,        \* main: missing
    errors,         \* main: errors
    present,        \* repos for which the partition loop took its `pass` branch
    printed,        \* what print(message) wrote
    emailed,        \* how the email step ended
    aexit,          \* exit status of the audit process, -1 while it runs
    \* find_missing.py, check_repo_is_missing_backups()
    returncode,     \* proc.returncode
    stderr,         \* the lines of stderr
    stdout,         \* the archive listing on stdout
    result          \* what the call returned or raised

vars == <<file, pc, stored_config, fetch, config_json, config, rng,
          loop, executed, is_retry, creates, inits, saved, exitStatus, cause,
          fileAtStart, everExecuted, retryPending,
          apc, date, task, sem, taskResult, completed, results, missing, errors,
          present, printed, emailed, aexit,
          returncode, stderr, stdout, result>>

\* the variables of the audit run and of the single inspection
auditVars == <<apc, date, task, sem, taskResult, completed, results, missing,
               errors, present, printed, emailed, aexit>>
inspectVars == <<returncode, stderr, stdout, result>>

-----------------------------------------------------------------------------
\* Documents

\* epochs of the update records a served document may list
UpdateEpochs == 1..MaxEpoch
CfgEpochs == 0..MaxCfgEpoch

\* client.py:69-89; the update list is kept as the set of its records' epochs
DEFAULT_CONFIG == [epoch |-> 0, updates |-> {0}]

\* A JSON document as served or stored, with the keys it has: the served
\* documents of the model carry an epoch and may lack the update list.
RawDocs ==
    {d \in [keys : {{"epoch"}, {"epoch", "updates"}},
            epoch : CfgEpochs,
            updates : SUBSET UpdateEpochs] :
        "updates" \notin d.keys => d.updates = {}}

NoDoc == [keys |-> {}, epoch |-> 0, updates |-> {}]

\* client.py:114-121
fill_struct_with_defaults(source, default) ==
    [epoch |-> IF "epoch" \in source.keys THEN source.epoch ELSE default.epoch,
     updates |-> IF "updates" \in source.keys THEN source.updates
                 ELSE default.updates]

\* client.py:395-404
LoadStored(f) ==
    IF f.kind = "valid" THEN fill_struct_with_defaults(f.doc, DEFAULT_CONFIG)
    ELSE DEFAULT_CONFIG

\* builtin max over a non-empty list
Max(S) == CHOOSE x \in S : \A y \in S : y <= x

\* client.py:126-138: the epochs the loop hands to apply_update
PendingEpochs(prev, cfg) ==
    {e \in (Max(prev.updates) + 1)..Max(cfg.updates) : e \in cfg.updates}

Epochs(seq) == {seq[k].epoch : k \in 1..Len(seq)}

\* epochs whose /bin/bash subprocess has been started and has not exited
Running == {executed[k].epoch : k \in {n \in 1..Len(executed) :
                                        executed[n].status = "running"}}

-----------------------------------------------------------------------------
\* The audit: data

\* find_missing.py:48: the list is sorted and has no duplicates; a repository
\* of the model is its position in the list
REPOS_TO_CHECK == [i \in 1..NRepos |-> i]
Positions == 1..NRepos

Days == 1..MaxDay
NoDate == 0

\* What an inspection gave: the value it returned, or the exception it
\* raised with the messages the exception carries.
Returned(b) == [exc |-> "none", ret |-> b, detail |-> <<>>]
Raised(e, d) == [exc |-> e, ret |-> FALSE, detail |-> d]
Pending == [exc |-> "pending", ret |-> FALSE, detail |-> <<>>]

NotPrinted == [done |-> FALSE, missing |-> <<>>, failed |-> <<>>, errors |-> <<>>]

\* find_missing.py before main() has run
AuditIdle ==
    /\ apc = "idle"
    /\ task = [i \in Positions |-> "new"]
    /\ sem = 0
    /\ taskResult = [i \in Positions |-> Pending]
    /\ completed = <<>>
    /\ results = <<>>
    /\ missing = <<>>
    /\ errors = <<>>
    /\ present = <<>>
    /\ printed = NotPrinted
    /\ emailed = "none"
    /\ aexit = -1

\* no inspection called on its own
InspectIdle ==
    /\ returncode = 0
    /\ stderr = <<>>
    /\ stdout = [valid |-> TRUE, archives |-> <<>>]
    /\ result = Pending

-----------------------------------------------------------------------------
\* The server and the start of a run

ClientIdle ==
    /\ file = [kind |-> "missing", doc |-> NoDoc]
    /\ pc = "idle"
    /\ stored_config = DEFAULT_CONFIG
    /\ fetch = "none"
    /\ config_json = NoDoc
    /\ config = DEFAULT_CONFIG
    /\ rng = <<>>
    /\ loop = "none"
    /\ executed = <<>>
    /\ is_retry = FALSE
    /\ creates = <<>>
    /\ inits = <<>>
    /\ saved = "none"
    /\ exitStatus = -1
    /\ cause = "none"
    /\ fileAtStart = file
    /\ everExecuted = {}
    /\ retryPending = <<>>

\* Both programs before they run.
Init ==
    /\ ClientIdle
    /\ AuditIdle
    /\ date = NoDate
    /\ InspectIdle

\* client.py:92-96: die() prints and calls exit(1)
die(why) ==
    /\ pc' = "exited"
    /\ exitStatus' = 1
    /\ cause' = why

\* an exception no handler catches: traceback, interpreter exits with status 1
Uncaught(why) ==
    /\ pc' = "exited"
    /\ exitStatus' = 1
    /\ cause' = why

\* main() returns: the interpreter exits with status 0
Return ==
    /\ pc' = "exited"
    /\ exitStatus' = 0
    /\ cause' = "returned"

\* client.py:386-410: a new process; STATE_DIRECTORY, then the stored file
MainStart ==
    /\ pc \in {"idle", "exited"}
    /\ \E stateDirSet \in BOOLEAN :
         IF stateDirSet
         THEN /\ pc' = "fetch"
              /\ exitStatus' = -1
              /\ cause' = "none"
         ELSE die("no_state_directory")
    /\ stored_config' = LoadStored(file)
    /\ fetch' = "none"
    /\ config_json' = NoDoc
    /\ config' = DEFAULT_CONFIG
    /\ rng' = <<>>
    /\ loop' = "none"
    /\ executed' = <<>>
    /\ is_retry' = FALSE
    /\ creates' = <<>>
    /\ inits' = <<>>
    /\ saved' = "none"
    /\ fileAtStart' = file
    /\ everExecuted' = everExecuted \cup Epochs(executed)
    /\ retryPending' =
         IF cause = "script_failed"
         THEN <<[doc |-> config_json,
                 pending |-> PendingEpochs(stored_config, config)]>>
         ELSE <<>>
    /\ UNCHANGED file
    /\ UNCHANGED <<auditVars, inspectVars>>

-----------------------------------------------------------------------------
\* Fetching the configuration and applying its updates

FetchOutcomes == {"ok", "connection_error", "http_error", "invalid_json"}

\* a body that is not JSON taken for an empty document
FetchFatalExceptJson(outcome) == outcome \in {"connection_error", "http_error"}

\* client.py:414-425: every failure of the fetch ends the run
ConfigFetchFatal(outcome) == outcome # "ok"

\* client.py:412-425
FetchConfig ==
    /\ pc = "fetch"
    /\ \E outcome \in FetchOutcomes, served \in RawDocs :
         /\ fetch' = outcome
         /\ retryPending' =
              IF /\ outcome = "ok"
                 /\ retryPending # <<>>
                 /\ retryPending[1].doc = served
              THEN retryPending
              ELSE <<>>
         /\ IF ConfigFetchFatal(outcome)
            THEN /\ IF outcome = "connection_error"
                    \* requests' ConnectionError is not the builtin one named
                    \* by the handler of line 420: nothing catches it
                    THEN Uncaught("config_connection_error")
                    ELSE die("config_" \o outcome)
                 /\ UNCHANGED <<config_json, config>>
            ELSE /\ config_json' = served
                 /\ config' = fill_struct_with_defaults(served, DEFAULT_CONFIG)
                 /\ pc' = "compare"
                 /\ UNCHANGED <<exitStatus, cause>>
    /\ UNCHANGED <<file, stored_config, rng, loop, executed, is_retry, creates,
                   inits, saved, fileAtStart, everExecuted>>
    /\ UNCHANGED <<auditVars, inspectVars>>

\* the fetched configuration applied whatever its epoch
IsNewerAlways(cfg, prev) == TRUE

\* the fetched configuration applied again when its epoch is the stored one
IsNewerOrEqual(cfg, prev) == cfg.epoch >= prev.epoch

\* client.py:428
IsNewer(cfg, prev) == cfg.epoch > prev.epoch

\* client.py:427-432
CompareEpochs ==
    /\ pc = "compare"
    /\ pc' = IF IsNewer(config, stored_config) THEN "apply_config" ELSE "setup"
    /\ UNCHANGED <<file, stored_config, fetch, config_json, config, rng, loop,
                   executed, is_retry, creates,
                   inits, saved, exitStatus, cause, fileAtStart, everExecuted,
                   retryPending>>
    /\ UNCHANGED <<auditVars, inspectVars>>

\* the range walked from its last element down to its first
RangeReversed(a, b) == [k \in 1..(IF b > a THEN b - a ELSE 0) |-> b - k]

\* builtin range(a, b) as the sequence the for loop walks
Range(a, b) == [k \in 1..(IF b > a THEN b - a ELSE 0) |-> a + k - 1]

\* the loop starting at the epoch that is already applied
RangeStartAtCurrent(current_update_epoch) == current_update_epoch

\* client.py:132: first argument of range
RangeStart(current_update_epoch) == current_update_epoch + 1

\* the loop stopping one epoch short of the latest
RangeStopBeforeLatest(latest_update_epoch) == latest_update_epoch

\* client.py:132: second argument of range
RangeStop(latest_update_epoch) == latest_update_epoch + 1

\* client.py:134-135: is there a record of epoch e ([...][0] does not raise)
HasRecord(cfg, e) == e \in cfg.updates

\* client.py:126-132: the two max() calls and the loop header
ApplyConfigBegin ==
    /\ pc = "apply_config"
    /\ IF stored_config.updates = {} \/ config.updates = {}
       THEN \* max() of an empty list raises ValueError
            /\ Uncaught("updates_empty")
            /\ UNCHANGED <<rng, loop>>
       ELSE /\ rng' = Range(RangeStart(Max(stored_config.updates)),
                            RangeStop(Max(config.updates)))
            /\ loop' = "running"
            /\ pc' = "loop"
            /\ UNCHANGED <<exitStatus, cause>>
    /\ UNCHANGED <<file, stored_config, fetch, config_json, config,
                   executed, is_retry, creates,
                   inits, saved, fileAtStart, everExecuted, retryPending>>
    /\ UNCHANGED <<auditVars, inspectVars>>

\* client.py:132-138: an epoch without a record raises IndexError, which is passed
ApplyConfigSkip ==
    /\ pc = "loop"
    /\ rng # <<>>
    /\ ~HasRecord(config, Head(rng))
    /\ rng' = Tail(rng)
    /\ UNCHANGED <<file, pc, stored_config, fetch, config_json, config, loop,
                   executed, is_retry, creates,
                   inits, saved, exitStatus, cause, fileAtStart, everExecuted,
                   retryPending>>
    /\ UNCHANGED <<auditVars, inspectVars>>

ScriptFetchOutcomes == {"ok", "connection_error", "http_error_response"}

\* client.py:203-204: what response.text holds; requests.get returns the
\* response of any status, raise_for_status() is never called
ScriptBody(outcome) == IF outcome = "ok" THEN "script" ELSE "error_body"

\* client.py:199-206: fetch the script and start /bin/bash on its text
apply_update_start ==
    /\ pc = "loop"
    /\ rng # <<>>
    /\ HasRecord(config, Head(rng))
    /\ \E outcome \in ScriptFetchOutcomes :
         IF outcome = "connection_error"
         THEN \* as in FetchConfig, the handler of line 209 does not match
              /\ Uncaught("script_connection_error")
              /\ UNCHANGED executed
         ELSE /\ executed' = Append(executed,
                     [epoch |-> Head(rng), body |-> ScriptBody(outcome),
                      status |-> "running"])
              /\ pc' = "wait_script"
              /\ UNCHANGED <<exitStatus, cause>>
    /\ UNCHANGED <<file, stored_config, fetch, config_json, config, rng, loop,
                   is_retry, creates, inits,
                   saved, fileAtStart, everExecuted, retryPending>>
    /\ UNCHANGED <<auditVars, inspectVars>>

\* subprocess.run without check=True
ScriptFailedNever(status) == FALSE

\* client.py:205-206: check=True raises CalledProcessError on a non-zero status
ScriptFailed(status) == status # 0

\* client.py:205-208: bash exits; subprocess.run returns or raises
apply_update_exit ==
    /\ pc = "wait_script"
    /\ \E status \in {0, 1} :
         /\ executed' = [executed EXCEPT ![Len(executed)].status =
                            IF status = 0 THEN "ok" ELSE "failed"]
         /\ IF ScriptFailed(status)
            THEN /\ die("script_failed")
                 /\ UNCHANGED rng
            ELSE /\ rng' = Tail(rng)
                 /\ pc' = "loop"
                 /\ UNCHANGED <<exitStatus, cause>>
    /\ UNCHANGED <<file, stored_config, fetch, config_json, config, loop,
                   is_retry, creates, inits,
                   saved, fileAtStart, everExecuted, retryPending>>
    /\ UNCHANGED <<auditVars, inspectVars>>

\* client.py:132: the range is exhausted
ApplyConfigLoopEnd ==
    /\ pc = "loop"
    /\ rng = <<>>
    /\ loop' = "finished"
    /\ pc' = "systemd"
    /\ UNCHANGED <<file, stored_config, fetch, config_json, config, rng,
                   executed, is_retry, creates, inits, saved, exitStatus,
                   cause, fileAtStart, everExecuted, retryPending>>
    /\ UNCHANGED <<auditVars, inspectVars>>

SystemdOutcomes == {"ok", "timer_dropin_failed", "service_dropin_failed",
                    "reload_failed"}

\* client.py:140-196: drop-in files (OSError is fatal), systemctl (only warns)
ApplyConfigSystemd ==
    /\ pc = "systemd"
    /\ \E outcome \in SystemdOutcomes :
         IF outcome \in {"timer_dropin_failed", "service_dropin_failed"}
         THEN die(outcome)
         ELSE /\ pc' = "store"
              /\ UNCHANGED <<exitStatus, cause>>
    /\ UNCHANGED <<file, stored_config, fetch, config_json, config, rng, loop,
                   executed, is_retry, creates,
                   inits, saved, fileAtStart, everExecuted, retryPending>>
    /\ UNCHANGED <<auditVars, inspectVars>>

StoreOutcomes == {"ok", "open_failed", "write_failed"}

\* a failed save ending the run
StoreFailureDies(outcome) == outcome # "ok"

\* client.py:219-220: an OSError of the save is only warned about
store_config_fatal(outcome) == FALSE

\* client.py:215-220: open(path, 'w') truncates the file before write()
store_config ==
    /\ pc = "store"
    /\ \E outcome \in StoreOutcomes :
         /\ saved' = outcome
         /\ file' = CASE outcome = "ok" ->
                           [kind |-> "valid", doc |-> config_json]
                      [] outcome = "open_failed" -> file
                      [] outcome = "write_failed" ->
                           [kind |-> "invalid", doc |-> NoDoc]
         /\ IF store_config_fatal(outcome)
            THEN die("store_failed")
            ELSE /\ pc' = "setup"
                 /\ UNCHANGED <<exitStatus, cause>>
    /\ UNCHANGED <<stored_config, fetch, config_json, config, rng, loop,
                   executed, is_retry, creates,
                   inits, fileAtStart, everExecuted, retryPending>>
    /\ UNCHANGED <<auditVars, inspectVars>>

SetupOutcomes == {"ok", "no_such_user", "ssh_key_copy_failed",
                  "drop_privileges_failed"}

\* client.py:432-436: get_drop_ids, copy_ssh_key, drop_privileges_to
Setup ==
    /\ pc = "setup"
    /\ \E outcome \in SetupOutcomes :
         IF outcome = "ok"
         THEN /\ pc' = "do_backup"
              /\ UNCHANGED <<exitStatus, cause>>
         ELSE die(outcome)
    /\ UNCHANGED <<file, stored_config, fetch, config_json, config, rng, loop,
                   executed, is_retry, creates,
                   inits, saved, fileAtStart, everExecuted, retryPending>>
    /\ UNCHANGED <<auditVars, inspectVars>>

-----------------------------------------------------------------------------
\* The backup: borg create, borg init, and the retry

\* One stderr line of borg --log-json, by what the parsing loop does with it
LineKinds == {"nonjson", "error_dne", "error", "warning_dne", "warning",
              "info", "no_levelname"}

Logs == UNION {[1..n -> LineKinds] : n \in 0..MaxLines}

\* exit codes of borg; 3 stands for every code other than 0, 1 and 2
BorgCodes == 0..3

\* client.py:254, 308: msg['levelname'] of a JSON line without that key
LogRaises(log) == \E k \in 1..Len(log) : log[k] = "no_levelname"

\* client.py:246-257: an ERROR line whose msgid is Repository.DoesNotExist
RepoDoesntExist(log) == \E k \in 1..Len(log) : log[k] = "error_dne"

\* the bootstrap branch without its is_retry test
ShouldBootstrapAgain(code, repo_doesnt_exist, retry) == code = 2 /\ repo_doesnt_exist

\* client.py:270-272
ShouldBootstrap(code, repo_doesnt_exist, retry) ==
    code = 2 /\ repo_doesnt_exist /\ ~retry

\* client.py:223-283: one borg create, its log, and the branch on its exit code
do_backup ==
    /\ pc = "do_backup"
    /\ \E code \in BorgCodes, log \in Logs :
         /\ IF LogRaises(log)
            THEN /\ Uncaught("create_log_keyerror")
                 /\ creates' = Append(creates,
                        [code |-> code, missing |-> RepoDoesntExist(log),
                         raised |-> TRUE])
            ELSE /\ creates' = Append(creates,
                        [code |-> code, missing |-> RepoDoesntExist(log),
                         raised |-> FALSE])
                 /\ IF ShouldBootstrap(code, RepoDoesntExist(log), is_retry)
                    THEN /\ pc' = "create_repo"
                         /\ UNCHANGED <<exitStatus, cause>>
                    ELSE IF code = 2
                         THEN die("backup_failed")
                         ELSE Return
    /\ UNCHANGED <<file, stored_config, fetch, config_json, config, rng, loop,
                   executed, is_retry, inits, saved, fileAtStart,
                   everExecuted, retryPending>>
    /\ UNCHANGED <<auditVars, inspectVars>>

\* client.py:322-330: the only exit code of borg init that ends the run
InitFatal(code) == code = 2

\* client.py:286-330 and 275: borg init, then do_backup(config, ssh_key, True)
create_repo ==
    /\ pc = "create_repo"
    /\ \E code \in BorgCodes, log \in Logs :
         /\ inits' = Append(inits, code)
         /\ IF LogRaises(log)
            THEN /\ Uncaught("init_log_keyerror")
                 /\ UNCHANGED is_retry
            ELSE IF InitFatal(code)
                 THEN /\ die("init_failed")
                      /\ UNCHANGED is_retry
                 ELSE /\ is_retry' = TRUE
                      /\ pc' = "do_backup"
                      /\ UNCHANGED <<exitStatus, cause>>
    /\ UNCHANGED <<file, stored_config, fetch, config_json, config, rng, loop,
                   executed, creates, saved, fileAtStart,
                   everExecuted, retryPending>>
    /\ UNCHANGED <<auditVars, inspectVars>>

-----------------------------------------------------------------------------

Next ==
    \/ MainStart
    \/ FetchConfig
    \/ CompareEpochs
    \/ ApplyConfigBegin
    \/ ApplyConfigSkip
    \/ apply_update_start
    \/ apply_update_exit
    \/ ApplyConfigLoopEnd
    \/ ApplyConfigSystemd
    \/ store_config
    \/ Setup
    \/ do_backup
    \/ create_repo

Spec == Init /\ [][Next]_vars

-----------------------------------------------------------------------------
\* Properties of one run's update scripts

\* max(old update epochs) < e <= max(new update epochs), with a record
InPendingRange(e) ==
    /\ Max(stored_config.updates) < e
    /\ e <= Max(config.updates)
    /\ e \in config.updates

\* C1: within one run the update scripts run one at a time and in strictly
\* increasing epoch order: when the bash of an epoch is started, the bash of
\* every epoch started before it has exited and had a smaller epoch.
C1_OneAtATimeInEpochOrder ==
    /\ Cardinality(Running) <= 1
    /\ \A j, k \in 1..Len(executed) :
         j < k => /\ executed[j].epoch < executed[k].epoch
                  /\ executed[j].status # "running"

\* the second script of a run is running
C1_Witness ==
    /\ Len(executed) = 2
    /\ executed[2].status = "running"
    /\ executed[1].status = "ok"

\* C2: the epochs handed to bash by apply_config are, once its loop has
\* finished, exactly the epochs in (max old, max new] that have a record in
\* the new list, and never any other epoch; an epoch of the range without a
\* record raises nothing and the later epochs still run.
C2_ExecutedAreThePendingRecords ==
    /\ loop # "none" => \A e \in Epochs(executed) : InPendingRange(e)
    /\ loop = "finished" =>
         /\ \A e \in 0..(MaxEpoch + 1) :
              InPendingRange(e) => e \in Epochs(executed)
         /\ \A k \in 1..Len(executed) : executed[k].status = "ok"

\* epoch 1 has no record, epoch 2 has one and was executed, the loop is over
C2_Witness ==
    /\ loop = "finished"
    /\ Max(stored_config.updates) = 0
    /\ config.updates = {2}
    /\ Epochs(executed) = {2}
    /\ pc = "systemd"

-----------------------------------------------------------------------------
\* Properties of a sequence of runs

NoEpochTwiceInRun ==
    \A j, k \in 1..Len(executed) :
        j # k => executed[j].epoch # executed[k].epoch

\* the epochs of the pending range the loop has already passed were executed
ReachedEpochsExecuted ==
    (pc = "loop" /\ loop = "running") =>
        \A e \in 0..(MaxEpoch + 1) :
            (InPendingRange(e) /\ \A k \in 1..Len(rng) : rng[k] # e)
                => e \in Epochs(executed)

PendingSet == {e \in 0..(MaxEpoch + 1) : InPendingRange(e)}

\* the run fetches the document whose run a failed script aborted last time
IsRetryRun ==
    /\ retryPending # <<>>
    /\ fetch = "ok"
    /\ config_json = retryPending[1].doc

\* C4: a script that exits non-zero is the last thing the run does: the run
\* has exited with status 1, no later epoch was started, nothing was saved,
\* the stored file is untouched, no borg command ran; the next run that
\* fetches the same document applies it again, with the same pending set.
C4_FailedScriptAbortsAndIsRetried ==
    /\ \A k \in 1..Len(executed) :
         executed[k].status = "failed" =>
            /\ k = Len(executed)
            /\ pc = "exited"
            /\ exitStatus = 1
            /\ saved = "none"
            /\ file = fileAtStart
            /\ creates = <<>>
            /\ inits = <<>>
    /\ IsRetryRun =>
         /\ config.epoch > stored_config.epoch
         /\ PendingSet = retryPending[1].pending
         /\ loop = "finished" => Epochs(executed) = retryPending[1].pending

\* the retry of a run aborted by a failed script: the first of its two
\* pending scripts fails again
C4_Witness ==
    /\ IsRetryRun
    /\ pc = "exited"
    /\ cause = "script_failed"
    /\ Cardinality(PendingSet) = 2
    /\ Len(executed) = 1

\* C5: a failed fetch of an update script (connection failure or an HTTP
\* error response) is fatal: bash is given nothing to run for that epoch,
\* the run has exited non-zero, nothing was saved and no borg command ran.
C5_ScriptFetchFailureIsFatal ==
    /\ \A k \in 1..Len(executed) : executed[k].body = "script"
    /\ cause = "script_connection_error" =>
         /\ exitStatus = 1
         /\ saved = "none"
         /\ file = fileAtStart
         /\ creates = <<>>

\* C6: a run that fetches a configuration whose epoch is not greater than
\* the epoch of the stored one executes no update script and leaves the
\* stored file as it was, whatever the fetched update list holds.
C6_NotNewerRunsNothing ==
    (fetch = "ok" /\ ~(config.epoch > LoadStored(fileAtStart).epoch)) =>
        /\ executed = <<>>
        /\ loop = "none"
        /\ saved = "none"
        /\ file = fileAtStart

\* a finished run over a stored file: the fetched epoch is not greater, the
\* fetched update list reaches beyond the stored one
C6_Witness ==
    /\ pc = "exited"
    /\ cause = "returned"
    /\ fetch = "ok"
    /\ fileAtStart.kind = "valid"
    /\ config.epoch <= stored_config.epoch
    /\ config.updates # {}
    /\ Max(config.updates) > Max(stored_config.updates)

\* C7: the stored file is written only in a run whose fetched epoch is
\* greater than the stored one, and only once the loop has finished with every
\* pending script exited with status 0; borg is started only after that save.
C7_SaveAfterUpdatesBackupAfterSave ==
    /\ (saved # "none" \/ file # fileAtStart) =>
         /\ fetch = "ok"
         /\ saved # "none"
         /\ config.epoch > LoadStored(fileAtStart).epoch
         /\ loop = "finished"
         /\ \A e \in PendingSet :
              \E k \in 1..Len(executed) :
                 executed[k].epoch = e /\ executed[k].status = "ok"
         /\ \A k \in 1..Len(executed) : executed[k].status = "ok"
    /\ saved = "ok" => file = [kind |-> "valid", doc |-> config_json]
    /\ (pc \in {"do_backup", "create_repo"} \/ creates # <<>>) =>
         /\ fetch = "ok"
         /\ config.epoch > LoadStored(fileAtStart).epoch => saved # "none"

\* two scripts ran, the configuration was saved, borg create was started
C7_Witness ==
    /\ saved = "ok"
    /\ Len(executed) = 2
    /\ creates # <<>>

-----------------------------------------------------------------------------
\* Properties of the way to the backup

OtherFatalSteps == {"updates_empty", "timer_dropin_failed",
                    "service_dropin_failed", "no_such_user",
                    "ssh_key_copy_failed", "drop_privileges_failed"}

C9_ConfigFetchFailureAborts ==
    fetch \notin {"none", "ok"} =>
        /\ pc = "exited"
        /\ exitStatus = 1
        /\ executed = <<>>
        /\ loop = "none"
        /\ saved = "none"
        /\ file = fileAtStart
        /\ creates = <<>>
        /\ inits = <<>>

\* a device with a stored configuration got a body that is not JSON
C9_Witness ==
    /\ fetch = "invalid_json"
    /\ pc = "exited"
    /\ file.kind = "valid"

-----------------------------------------------------------------------------
\* Properties of do_backup

\* the first create exited 2 and its log has the Repository.DoesNotExist error
FirstCreateRepoMissing ==
    /\ creates # <<>>
    /\ creates[1].code = 2
    /\ creates[1].missing

C11_ExitCodeDecidesOutcome ==
    \A k \in 1..Len(creates) :
        /\ creates[k].code \in {0, 1} =>
             /\ k = Len(creates)
             /\ Len(inits) = k - 1
             /\ pc = "exited"
             /\ exitStatus = 0
        /\ (creates[k].code = 2 /\ (~creates[k].missing \/ k = 2)) =>
             /\ k = Len(creates)
             /\ Len(inits) = k - 1
             /\ pc = "exited"
             /\ exitStatus # 0

\* C12: after a create that exits with a code other than 0, 1 and 2 the run
\* does not end with status 0, and neither init nor another create follows.
C12_OtherCodeIsNotSuccess ==
    \A k \in 1..Len(creates) :
        creates[k].code \notin {0, 1, 2} =>
            /\ k = Len(creates)
            /\ Len(inits) = k - 1
            /\ pc = "exited" => exitStatus # 0

\* C13: the second create is invoked only after an init that exited 0 or 1;
\* after an init with any other exit code the run has exited non-zero with
\* the first create as its only one.
C13_RetryOnlyAfterInitSucceeded ==
    /\ Len(creates) = 2 => (inits # <<>> /\ inits[1] \in {0, 1})
    /\ (inits # <<>> /\ inits[1] \notin {0, 1}) =>
         /\ Len(creates) = 1
         /\ pc = "exited"
         /\ exitStatus # 0

-----------------------------------------------------------------------------
\* One inspection: check_repo_is_missing_backups(repo, date)

\* exit codes of `borg list`; 3 stands for every code other than 0, 1 and 2
ListCodes == 0..3

\* A stderr line is not JSON, or a JSON object: one whose msgid is
\* Repository.DoesNotExist, one with a message ("msg_a", "msg_b": two
\* different messages) and another or no msgid, or one with neither.
StderrKinds == {"nonjson", "dne", "msg_a", "msg_b", "bare"}
StderrLogs == UNION {[1..n -> StderrKinds] : n \in 0..MaxStderrLines}

\* find_missing.py:186
IsDoesNotExist(line) == line = "dne"
\* find_missing.py:188
HasMessage(line) == line \in {"msg_a", "msg_b"}
\* find_missing.py:189: msg['message']
Message(line) == IF line = "msg_a" THEN "a" ELSE "b"

\* archive['time']: a local date and time of day
Timestamps == [day : Days, hour : {0, 12}]
ArchiveLists == UNION {[1..n -> Timestamps] : n \in 0..MaxArchives}
\* stdout: the JSON listing with its archives, or something json.loads or
\* repo['archives'] rejects
Stdouts ==
    {[valid |-> TRUE, archives |-> a] : a \in ArchiveLists}
        \cup {[valid |-> FALSE, archives |-> <<>>]}

\* the scan that gives up at the first line carrying a message
RECURSIVE ScanUntilFirstMessage(_, _)
ScanUntilFirstMessage(lines, error_messages) ==
    IF lines = <<>>
    THEN Raised("BorgError", error_messages)
    ELSE IF Head(lines) = "nonjson"
         THEN ScanUntilFirstMessage(Tail(lines), error_messages)
         ELSE IF IsDoesNotExist(Head(lines))
              THEN Returned(TRUE)
              ELSE IF HasMessage(Head(lines))
                   THEN Raised("BorgError", <<Message(Head(lines))>>)
                   ELSE ScanUntilFirstMessage(Tail(lines), error_messages)

\* find_missing.py:182-195: the loop over stderr.splitlines() and the raise
\* after it
RECURSIVE ScanStderr(_, _)
ScanStderr(lines, error_messages) ==
    IF lines = <<>>
    THEN Raised("BorgError", error_messages)
    ELSE IF Head(lines) = "nonjson"
         THEN ScanStderr(Tail(lines), error_messages)
         ELSE IF IsDoesNotExist(Head(lines))
              THEN Returned(TRUE)
              ELSE IF HasMessage(Head(lines))
                   THEN ScanStderr(Tail(lines),
                                   Append(error_messages, Message(Head(lines))))
                   ELSE ScanStderr(Tail(lines), error_messages)

\* find_missing.py:200: datetime.fromisoformat(...).date() drops the time of day
DateOf(timestamp) == timestamp.day

\* an archive of the target date or of a later one
OnOrAfterDate(timestamp, d) == DateOf(timestamp) >= d

\* find_missing.py:201
OnDate(timestamp, d) == DateOf(timestamp) = d

\* find_missing.py:197-203
RECURSIVE ScanArchives(_, _)
ScanArchives(archives, d) ==
    IF archives = <<>>
    THEN Returned(TRUE)
    ELSE IF OnDate(Head(archives), d)
         THEN Returned(FALSE)
         ELSE ScanArchives(Tail(archives), d)

\* find_missing.py:180-203: what the call gives for what borg gave
Inspect(code, err, out, d) ==
    IF code = 2
    THEN ScanStderr(err, <<>>)
    ELSE IF out.valid
         THEN ScanArchives(out.archives, d)
         ELSE Raised("JSONDecodeError", <<>>)

\* One call with what borg gave it: exit 0 comes with a listing.
InitInspect ==
    /\ ClientIdle
    /\ AuditIdle
    /\ date \in Days
    /\ returncode \in ListCodes
    /\ stderr \in StderrLogs
    /\ stdout \in Stdouts
    /\ returncode = 0 => stdout.valid
    /\ result = Pending

check_repo_is_missing_backups ==
    /\ result = Pending
    /\ date \in Days
    /\ result' = Inspect(returncode, stderr, stdout, date)
    /\ UNCHANGED <<returncode, stderr, stdout, auditVars>>
    /\ UNCHANGED <<file, pc, stored_config, fetch, config_json, config, rng,
                   loop, executed, is_retry, creates, inits, saved, exitStatus,
                   cause, fileAtStart, everExecuted, retryPending>>

NextInspect == check_repo_is_missing_backups

SpecInspect == InitInspect /\ [][NextInspect]_vars

-----------------------------------------------------------------------------
\* Properties of one inspection

\* the messages of the lines that carry one, in the order of the lines
RECURSIVE MessagesOf(_)
MessagesOf(lines) ==
    IF lines = <<>>
    THEN <<>>
    ELSE IF lines[Len(lines)] \in {"msg_a", "msg_b"}
         THEN Append(MessagesOf(SubSeq(lines, 1, Len(lines) - 1)),
                     IF lines[Len(lines)] = "msg_a" THEN "a" ELSE "b")
         ELSE MessagesOf(SubSeq(lines, 1, Len(lines) - 1))

\* C18: after exit code 2 the inspection returns True when some stderr line,
\* at any position, has msgid Repository.DoesNotExist, and otherwise raises
\* BorgError with the messages of the lines, in their order.
C18_Exit2MissingIffDoesNotExistLine ==
    (returncode = 2 /\ result # Pending) =>
        IF \E k \in 1..Len(stderr) : stderr[k] = "dne"
        THEN result = Returned(TRUE)
        ELSE result = Raised("BorgError", MessagesOf(stderr))

\* a DoesNotExist line behind a line with a message was found
C18_Witness ==
    /\ returncode = 2
    /\ Len(stderr) = 2
    /\ stderr[1] = "msg_a"
    /\ stderr[2] = "dne"
    /\ result = Returned(TRUE)

\* C19: after exit code 0 the inspection returns False exactly when some
\* archive of the listing has the target date as its calendar date, and
\* returns True otherwise, the empty listing included.
C19_Exit0PresentIffArchiveOnDate ==
    (returncode = 0 /\ result # Pending) =>
        result = Returned(~(\E k \in 1..Len(stdout.archives) :
                               stdout.archives[k].day = date))

\* an archive of another day stands before the one of the target date
C19_Witness ==
    /\ returncode = 0
    /\ Len(stdout.archives) = 2
    /\ stdout.archives[1].day # date
    /\ stdout.archives[2].day = date
    /\ result = Returned(FALSE)

-----------------------------------------------------------------------------
\* The audit run: main() of find_missing.py

\* find_missing.py:232-245: the date argument parses, or does not
\* (sys.exit(1)); without one, today.replace(day=today.day - 1) gives
\* yesterday, or raises ValueError on the first day of a month
DateOutcomes == {"ok", "parser_error", "value_error"}

\* The date an audit run is explored for, parsed from the argument or
\* yesterday's: what an inspection can give is the same for every date.
AuditDates == {MaxDay}

\* What borg gives one inspection of the audit run: the short outputs, of at
\* most one stderr line, with one message to carry, and at most one archive.
AuditOutputs ==
    {o \in [code : ListCodes,
            err : {l \in StderrLogs : Len(l) <= 1 /\ l # <<"msg_b">>},
            out : {t \in Stdouts : Len(t.archives) <= 1}] :
        o.code = 0 => o.out.valid}

\* what an inspection of the date d can give
InspectionOutcomes ==
    [d \in Days |-> {Inspect(o.code, o.err, o.out, d) : o \in AuditOutputs}]

\* find_missing.py:219-253: main() up to the await of asyncio.gather; the
\* semaphore is created and one do_with_sem task per repository is scheduled
audit_main ==
    /\ apc = "idle"
    /\ \E how \in DateOutcomes, d \in AuditDates :
         IF how = "ok"
         THEN /\ date' = d
              /\ sem' = CONCURRENT_BORG_PROCS
              /\ task' = [i \in Positions |-> "waiting"]
              /\ apc' = "gather"
              /\ UNCHANGED aexit
         ELSE /\ apc' = "exited"
              /\ aexit' = 1
              /\ UNCHANGED <<date, sem, task>>
    /\ UNCHANGED <<taskResult, completed, results, missing, errors, present,
                   printed, emailed, inspectVars>>
    /\ UNCHANGED <<file, pc, stored_config, fetch, config_json, config, rng,
                   loop, executed, is_retry, creates, inits, saved, exitStatus,
                   cause, fileAtStart, everExecuted, retryPending>>

\* a semaphore that hands out a permit it does not have
CanAcquireAtZero(value) == value >= 0

\* asyncio.Semaphore.acquire gives a permit while the value is positive
CanAcquire(value) == value > 0

\* find_missing.py:215: `async with sem` entered by one waiting task
do_with_sem_acquire ==
    /\ apc = "gather"
    /\ \E i \in Positions :
         /\ task[i] = "waiting"
         /\ CanAcquire(sem)
         /\ sem' = sem - 1
         /\ task' = [task EXCEPT ![i] = "admitted"]
    /\ UNCHANGED <<apc, date, taskResult, completed, results, missing, errors,
                   present, printed, emailed, aexit, inspectVars>>
    /\ UNCHANGED <<file, pc, stored_config, fetch, config_json, config, rng,
                   loop, executed, is_retry, creates, inits, saved, exitStatus,
                   cause, fileAtStart, everExecuted, retryPending>>

\* a semaphore whose permit is lost when the body raises
SemAfterReturnOnly(value, r) == IF r.exc = "none" THEN value + 1 ELSE value

\* find_missing.py:215-216: leaving `async with sem` releases the permit,
\* whether the body returned or raised
SemAfterExit(value, r) == value + 1

\* find_missing.py:174-177: the admitted task starts `borg list`, or
\* create_subprocess_exec raises and the task ends with that exception
start_listing ==
    /\ apc = "gather"
    /\ \E i \in Positions, started \in BOOLEAN :
         /\ task[i] = "admitted"
         /\ IF started
            THEN /\ task' = [task EXCEPT ![i] = "listing"]
                 /\ UNCHANGED <<sem, taskResult, completed>>
            ELSE /\ task' = [task EXCEPT ![i] = "done"]
                 /\ taskResult' = [taskResult EXCEPT ![i] = Raised("OSError", <<>>)]
                 /\ completed' = Append(completed, i)
                 /\ sem' = SemAfterExit(sem, Raised("OSError", <<>>))
    /\ UNCHANGED <<apc, date, results, missing, errors, present, printed,
                   emailed, aexit, inspectVars>>
    /\ UNCHANGED <<file, pc, stored_config, fetch, config_json, config, rng,
                   loop, executed, is_retry, creates, inits, saved, exitStatus,
                   cause, fileAtStart, everExecuted, retryPending>>

\* find_missing.py:178-203, 215-216: `borg list` has exited, the inspection
\* returns or raises, the permit is released and the task is done
finish_listing ==
    /\ apc = "gather"
    /\ \E i \in Positions, r \in InspectionOutcomes[date] :
         /\ task[i] = "listing"
         /\ task' = [task EXCEPT ![i] = "done"]
         /\ taskResult' = [taskResult EXCEPT ![i] = r]
         /\ completed' = Append(completed, i)
         /\ sem' = SemAfterExit(sem, r)
    /\ UNCHANGED <<apc, date, results, missing, errors, present, printed,
                   emailed, aexit, inspectVars>>
    /\ UNCHANGED <<file, pc, stored_config, fetch, config_json, config, rng,
                   loop, executed, is_retry, creates, inits, saved, exitStatus,
                   cause, fileAtStart, everExecuted, retryPending>>

\* find_missing.py:249-253: asyncio.gather(..., return_exceptions=True) gives
\* each task's return value or exception at the position of its awaitable
Gather(tr, order) == [i \in Positions |-> tr[i]]

\* find_missing.py:249: the await ends once every task is done
gather_returns ==
    /\ apc = "gather"
    /\ \A i \in Positions : task[i] = "done"
    /\ results' = Gather(taskResult, completed)
    /\ apc' = "partition"
    /\ UNCHANGED <<date, task, sem, taskResult, completed, missing, errors,
                   present, printed, emailed, aexit, inspectVars>>
    /\ UNCHANGED <<file, pc, stored_config, fetch, config_json, config, rng,
                   loop, executed, is_retry, creates, inits, saved, exitStatus,
                   cause, fileAtStart, everExecuted, retryPending>>

\* the truth value of a result: an exception object is truthy
IsTruthy(r) == r.exc # "none" \/ r.ret

\* find_missing.py:259: result is True
IsTrue(r) == r.exc = "none" /\ r.ret

\* find_missing.py:261: result is False
IsFalse(r) == r.exc = "none" /\ ~r.ret

\* find_missing.py:258: zip(REPOS_TO_CHECK, results) pairs by position, in
\* list order
ZipPositions(res) == [i \in 1..Len(res) |-> i]

\* the True results picked up in the order the tasks finished
MissingInCompletionOrder(res) == SelectSeq(completed, LAMBDA i : IsTrue(res[i]))

\* find_missing.py:258-260: the positions appended to missing, in loop order
MissingPositions(res) == SelectSeq(ZipPositions(res), LAMBDA i : IsTrue(res[i]))

\* find_missing.py:261-262: the positions of the `pass` branch
PresentPositions(res) ==
    SelectSeq(ZipPositions(res), LAMBDA i : ~IsTrue(res[i]) /\ IsFalse(res[i]))

\* find_missing.py:263-264: the positions appended to errors, in loop order
ErrorPositions(res) ==
    SelectSeq(ZipPositions(res), LAMBDA i : ~IsTrue(res[i]) /\ ~IsFalse(res[i]))

\* find_missing.py:256-290: the partition loop, the message and its print
partition_and_print ==
    /\ apc = "partition"
    /\ LET m == MissingPositions(results)
           p == PresentPositions(results)
           e == ErrorPositions(results)
       IN /\ missing' = [k \in 1..Len(m) |-> REPOS_TO_CHECK[m[k]]]
          /\ present' = [k \in 1..Len(p) |-> REPOS_TO_CHECK[p[k]]]
          /\ errors' = [k \in 1..Len(e) |->
                           [repo |-> REPOS_TO_CHECK[e[k]], err |-> results[e[k]]]]
    /\ printed' = [done |-> TRUE,
                   missing |-> missing',
                   failed |-> [k \in 1..Len(errors') |-> errors'[k].repo],
                   errors |-> errors']
    /\ apc' = "email"
    /\ UNCHANGED <<date, task, sem, taskResult, completed, results, emailed,
                   aexit, inspectVars>>
    /\ UNCHANGED <<file, pc, stored_config, fetch, config_json, config, rng,
                   loop, executed, is_retry, creates, inits, saved, exitStatus,
                   cause, fileAtStart, everExecuted, retryPending>>

\* find_missing.py:292-302: without --email nothing is sent; with it
\* send_email returns or raises: ValueError of a missing sender, recipient,
\* username, password, server or port, AssertionError of a port out of
\* range, or an smtplib or socket error
EmailOutcomes ==
    {"not_requested", "sent", "value_error", "assertion_error", "smtp_error"}

\* find_missing.py:96-153: the outcomes in which send_email raised
DispatchFailed(how) == how \in {"value_error", "assertion_error", "smtp_error"}

\* a handler for the errors of smtplib only
CaughtIfSmtpError(how) == how = "smtp_error"

\* find_missing.py:301: `except Exception` catches each of them
Caught(how) == how \in {"value_error", "assertion_error", "smtp_error"}

\* find_missing.py:292-302: the email step, after which main() returns
email_step ==
    /\ apc = "email"
    /\ \E how \in EmailOutcomes :
         /\ emailed' = how
         /\ aexit' = IF DispatchFailed(how) /\ ~Caught(how) THEN 1 ELSE 0
    /\ apc' = "exited"
    /\ UNCHANGED <<date, task, sem, taskResult, completed, results, missing,
                   errors, present, printed, inspectVars>>
    /\ UNCHANGED <<file, pc, stored_config, fetch, config_json, config, rng,
                   loop, executed, is_retry, creates, inits, saved, exitStatus,
                   cause, fileAtStart, everExecuted, retryPending>>

\* find_missing.py:304-308: SIGINT while asyncio.run(main()) runs ends main()
\* with KeyboardInterrupt wherever it stands and cancels the tasks that are
\* not done; nothing more is printed and the process exits with status 3
KeyboardInterrupt ==
    /\ apc \in {"gather", "partition", "email"}
    /\ apc' = "exited"
    /\ aexit' = 3
    /\ task' = [i \in Positions |-> IF task[i] = "done" THEN "done" ELSE "cancelled"]
    /\ UNCHANGED <<date, sem, taskResult, completed, results, missing, errors,
                   present, printed, emailed, inspectVars>>
    /\ UNCHANGED <<file, pc, stored_config, fetch, config_json, config, rng,
                   loop, executed, is_retry, creates, inits, saved, exitStatus,
                   cause, fileAtStart, everExecuted, retryPending>>

NextAudit ==
    \/ audit_main
    \/ do_with_sem_acquire
    \/ start_listing
    \/ finish_listing
    \/ gather_returns
    \/ partition_and_print
    \/ email_step
    \/ KeyboardInterrupt

SpecAudit == Init /\ [][NextAudit]_vars

\* The event loop runs every task that can run: a waiting task takes a free
\* permit, an admitted one starts its subprocess, gather returns once all
\* tasks are done and main() goes on to print.  Every `borg list` that was
\* started exits.  Nothing is assumed of the interrupt or of how main()
\* is started.
AuditFairness ==
    /\ WF_vars(do_with_sem_acquire)
    /\ WF_vars(start_listing)
    /\ WF_vars(finish_listing)
    /\ WF_vars(gather_returns)
    /\ WF_vars(partition_and_print)

SpecAuditFair == Init /\ [][NextAudit]_vars /\ AuditFairness

-----------------------------------------------------------------------------
\* Properties of the audit run

\* the inspections whose `borg list` has started and has not exited
InFlight == {i \in Positions : task[i] = "listing"}
\* the inspections inside `async with sem`
Holders == {i \in Positions : task[i] \in {"admitted", "listing"}}

\* C14: at every moment of an audit run at most CONCURRENT_BORG_PROCS
\* inspections have started their listing subprocess and not finished it.
C14_InFlightWithinLimit ==
    Cardinality(InFlight) <= CONCURRENT_BORG_PROCS

\* the limit is reached while another repository waits
C14_Witness ==
    /\ Cardinality(InFlight) = CONCURRENT_BORG_PROCS
    /\ \E i \in Positions : task[i] = "waiting"

Raisers == {i \in Positions : task[i] = "done" /\ taskResult[i].exc # "none"}

\* C15: an inspection that raised holds no permit, so the others are still
\* admitted (a waiting one can acquire whenever fewer than the limit hold a
\* permit); the run goes on to gather every task; and gather's list has one
\* entry per repository, each the repository's own return value or exception.
C15_RaisingInspectionIsIsolated ==
    /\ apc = "gather" =>
         /\ sem = CONCURRENT_BORG_PROCS - Cardinality(Holders)
         /\ (/\ \E i \in Positions : task[i] = "waiting"
             /\ Cardinality(Holders) < CONCURRENT_BORG_PROCS)
                => ENABLED do_with_sem_acquire
    /\ (Raisers # {} /\ apc = "exited") => aexit \in {0, 3}
    /\ apc \in {"partition", "email"} =>
         /\ DOMAIN results = Positions
         /\ \A i \in Positions : results[i] = taskResult[i]
         /\ Len(completed) = NRepos
         /\ \A i \in Positions : \E k \in 1..NRepos : completed[k] = i

\* the first inspection to finish raised, the others were admitted and
\* returned after it, and gather has returned
C15_Witness ==
    /\ apc = "partition"
    /\ Cardinality(Raisers) = 1
    /\ completed[1] \in Raisers
    /\ task[completed[1]] = "done"

Range_(seq) == {seq[k] : k \in 1..Len(seq)}

\* C16: once the partition loop has run, every repository is in exactly one
\* of present, missing and errors: the three have no repository twice or in
\* common and their lengths add up to the length of REPOS_TO_CHECK; a
\* repository whose inspection returned True is in missing, False in present,
\* and one whose inspection raised is in errors with that exception.
C16_PartitionIsExact ==
    printed.done =>
        /\ Len(missing) + Len(present) + Len(errors) = Len(REPOS_TO_CHECK)
        /\ Cardinality(Range_(missing)) = Len(missing)
        /\ Cardinality(Range_(present)) = Len(present)
        /\ Cardinality({errors[k].repo : k \in 1..Len(errors)}) = Len(errors)
        /\ Range_(missing) \cap Range_(present) = {}
        /\ Range_(missing) \cap {errors[k].repo : k \in 1..Len(errors)} = {}
        /\ Range_(present) \cap {errors[k].repo : k \in 1..Len(errors)} = {}
        /\ \A i \in Positions :
             /\ (taskResult[i].exc = "none" /\ taskResult[i].ret)
                    => REPOS_TO_CHECK[i] \in Range_(missing)
             /\ (taskResult[i].exc = "none" /\ ~taskResult[i].ret)
                    => REPOS_TO_CHECK[i] \in Range_(present)
             /\ taskResult[i].exc # "none"
                    => \E k \in 1..Len(errors) :
                          errors[k] = [repo |-> REPOS_TO_CHECK[i],
                                       err |-> taskResult[i]]

\* all three classes are populated
C16_Witness ==
    /\ printed.done
    /\ missing # <<>>
    /\ present # <<>>
    /\ errors # <<>>

\* position of a repository in REPOS_TO_CHECK
PositionOf(repo) == CHOOSE i \in Positions : REPOS_TO_CHECK[i] = repo

\* C17: missing and errors list their repositories in the order of
\* REPOS_TO_CHECK, whatever the order in which the inspections finished: each
\* is REPOS_TO_CHECK filtered by the repositories' own outcomes, so two runs
\* with the same outcomes print the same sequences.
C17_ReportInInputOrder ==
    printed.done =>
        /\ \A k, l \in 1..Len(missing) :
             k < l => PositionOf(missing[k]) < PositionOf(missing[l])
        /\ \A k, l \in 1..Len(errors) :
             k < l => PositionOf(errors[k].repo) < PositionOf(errors[l].repo)
        /\ missing = SelectSeq(REPOS_TO_CHECK,
                               LAMBDA r : /\ taskResult[PositionOf(r)].exc = "none"
                                          /\ taskResult[PositionOf(r)].ret)
        /\ printed.missing = missing
        /\ printed.failed = SelectSeq(REPOS_TO_CHECK,
                               LAMBDA r : taskResult[PositionOf(r)].exc # "none")

\* two missing repositories finished in the reverse of their list order
C17_Witness ==
    /\ printed.done
    /\ Len(missing) >= 2
    /\ \E k, l \in 1..Len(completed) :
         /\ k < l
         /\ completed[k] = PositionOf(missing[2])
         /\ completed[l] = PositionOf(missing[1])

\* C20: after an interrupt the process has exit status 3, no inspection is
\* admitted any more, and the results of the inspections that had completed
\* are printed: the missing ones and the failed ones among them are in the
\* report.
C20_InterruptPrintsPartialReport ==
    aexit = 3 =>
        /\ \A i \in Positions : task[i] \in {"done", "cancelled"}
        /\ ~ENABLED do_with_sem_acquire
        /\ (\E i \in Positions : task[i] = "done") =>
             /\ printed.done
             /\ \A i \in Positions :
                  (task[i] = "done" /\ taskResult[i].exc = "none" /\ taskResult[i].ret)
                      => REPOS_TO_CHECK[i] \in Range_(printed.missing)
             /\ \A i \in Positions :
                  (task[i] = "done" /\ taskResult[i].exc # "none")
                      => REPOS_TO_CHECK[i] \in Range_(printed.failed)

\* C21: the email step runs only once every inspection is done and the
\* report is printed, and a dispatch that failed, whatever was missing or
\* went wrong, leaves the printed report as the partition made it and the
\* exit status 0.
C21_DispatchFailureOnlyLogged ==
    /\ emailed # "none" =>
         /\ \A i \in Positions : task[i] = "done"
         /\ printed.done
    /\ emailed \in {"value_error", "assertion_error", "smtp_error"} =>
         /\ apc = "exited"
         /\ aexit = 0
         /\ printed = [done |-> TRUE,
                       missing |-> missing,
                       failed |-> [k \in 1..Len(errors) |-> errors[k].repo],
                       errors |-> errors]

\* a missing setting made send_email raise after a report with a missing
\* repository
C21_Witness ==
    /\ emailed = "value_error"
    /\ aexit = 0
    /\ printed.missing # <<>>

\* C22: when every started `borg list` exits, then from any moment at which
\* repositories wait for a permit a moment follows at which every
\* repository has been admitted, and the run eventually prints its report,
\* unless an interrupt ends the run first.
C22_EveryRepoAdmittedAndReported ==
    /\ (apc = "gather" /\ \E i \in Positions : task[i] = "waiting")
           ~> ((\A i \in Positions : task[i] \in {"admitted", "listing", "done"})
               \/ aexit = 3)
    /\ (apc = "gather") ~> (printed.done \/ aexit = 3)

\* the report is printed although the repositories that held every permit
\* raised
C22_Witness ==
    /\ printed.done
    /\ Len(completed) = NRepos
    /\ \A k \in 1..CONCURRENT_BORG_PROCS : taskResult[completed[k]].exc # "none"
    /\ taskResult[completed[NRepos]].exc = "none"

-----------------------------------------------------------------------------
\* Properties of the stored configuration

\* the epoch a run reads from the stored file (client.py:395-404)
PersistedEpoch(f) == LoadStored(f).epoch

\* C23: the epoch of the stored configuration never falls below the one the
\* run started with, and a save that wrote to the file has left a document
\* whose epoch is strictly greater than that one.
C23_PersistedEpochNeverDecreases ==
    /\ PersistedEpoch(file) >= PersistedEpoch(fileAtStart)
    /\ saved \in {"ok", "write_failed"} =>
         PersistedEpoch(file) > PersistedEpoch(fileAtStart)

====
